---------------------------- MODULE Spec2Model ----------------------------
(***************************************************************************)
(* A model of the C.A.L. simulator (src/app/page.tsx): the CALProjector    *)
(* pipeline (volume -> per-angle radon kernel -> normalisation), the STL   *)
(* voxelizer, and the React component that drives them.                    *)
(*                                                                         *)
(* Numbers.  JavaScript numbers are IEEE doubles; here every quantity is   *)
(* an exact rational.  A fraction is a reduced pair <<num, den>>; grid     *)
(* coordinates of the kernel are integers in tenths of a voxel; raw pixel  *)
(* values are integers in a stated unit.  Rounding of the last bit of a    *)
(* double is therefore not represented.                                    *)
(***************************************************************************)
EXTENDS Integers, Sequences, FiniteSets, TLC

(***************************************************************************)
(* Bounds of the exploration (not program constants).                      *)
(***************************************************************************)
\* how many positions of the projection-count slider, counted from its minimum
MaxCountPositions == 1
\* how many positions of the resolution slider, counted upward from its
\* initial position
MaxResolutionPositions == 2
\* the kernel call may throw in any of the first MaxFailingAngle iterations
MaxFailingAngle == 2
\* raw pixel values given to the normalizer are k / RawUnit, k in 0..MaxRaw
RawUnit == 2
MaxRaw == 3
\* meshes given to the voxelizer have at most MaxVertices vertices, with
\* integer coordinates in 0..MaxCoord (and the one-triangle mesh of the
\* component's state machine)
MaxVertices == 2
MaxCoord == 1
\* rays are traced for the threads of the MaxEdgeRows rows next to each
\* edge of the output
MaxEdgeRows == 2

(***************************************************************************)
(* Program constants.                                                      *)
(***************************************************************************)
ResolutionMin == 64
ResolutionStep == 64
ResolutionMax == 256
CountMin == 36
CountStep == 36
CountMax == 720
DefaultVolumeSize == 128
DefaultNumProjections == 180
YieldEvery == 10
FullTurn == 360
EightBitMax == 255

\* the values the resolution slider can deliver, within the bound
Resolutions ==
    { r \in DefaultVolumeSize..ResolutionMax :
        /\ (r - ResolutionMin) % ResolutionStep = 0
        /\ (r - DefaultVolumeSize) \div ResolutionStep < MaxResolutionPositions }

\* the values the projection-count slider can deliver, within the bound
ProjectionCounts ==
    { m \in CountMin..CountMax :
        /\ (m - CountMin) % CountStep = 0
        /\ (m - CountMin) \div CountStep < MaxCountPositions }
      \cup {DefaultNumProjections}

(***************************************************************************)
(* Exact fractions.                                                        *)
(***************************************************************************)
RECURSIVE GCD(_, _)
\* x and y name the values of a and b, so that each is worked out once
GCD(a, b) ==
    IF b = 0 THEN a
    ELSE CHOOSE g \in { GCD(y, x % y) : x \in {a}, y \in {b} } : TRUE

\* n / d for n >= 0, d > 0, reduced
Frac(n, d) == LET g == GCD(n, d) IN <<n \div g, d \div g>>

FracTimes(f, k) == Frac(f[1] * k, f[2])

FracLess(f, g) == f[1] * g[2] < g[1] * f[2]

FracLeq(f, g) == f[1] * g[2] <= g[1] * f[2]

Zero == Frac(0, 1)

One == Frac(1, 1)


(***************************************************************************)
(* Volumes and meshes.                                                     *)
(*                                                                         *)
(* A VoxelVolume (number[][][], indexed [z][y][x]) is kept as its side, a  *)
(* tag saying which generator filled it, and, for a voxelized mesh, the    *)
(* set of cells <<x, y, z>> that hold 1; VoxelAt reads one cell.           *)
(***************************************************************************)
ModelTypes == {"gear", "cube", "sphere", "custom"}

EmptyMesh == [vertices |-> <<>>, triangles |-> <<>>]

TriangleMesh ==
    [vertices |-> << <<0, 0, 0>>, <<1, 0, 0>>, <<0, 1, 0>> >>,
     triangles |-> << <<0, 1, 2>> >>]

\* the meshes an uploaded file parses to, in the component's state machine
UploadMeshes == {EmptyMesh, TriangleMesh}

Axes == 1..3

RECURSIVE SeqMin(_, _, _)
SeqMin(vs, a, k) ==
    IF k = Len(vs) THEN vs[k][a]
    ELSE LET r == SeqMin(vs, a, k + 1) IN IF vs[k][a] < r THEN vs[k][a] ELSE r

RECURSIVE SeqMax(_, _, _)
SeqMax(vs, a, k) ==
    IF k = Len(vs) THEN vs[k][a]
    ELSE LET r == SeqMax(vs, a, k + 1) IN IF vs[k][a] > r THEN vs[k][a] ELSE r

SetMax(S) == CHOOSE m \in S : \A n \in S : n <= m

\* the scaled coordinate without the offset that centres the mesh, which
\* C18_OccupiedCells tells apart from the centred one
VoxelCoordFromCorner(v, a, lo, size, E, gridSize) ==
    (8 * gridSize * (v[a] - lo[a])) \div (10 * E)

\* Math.floor of the transformed coordinate of vertex v on axis a, for a
\* largest extent E > 0:
\*   (v[a] - min[a]) * scale + (gridSize - size[a] * scale) / 2,
\*   scale = gridSize * 0.8 / E
\* = (8 N (v[a] - min[a]) + 5 E N - 4 N size[a]) / (10 E)
VoxelCoord(v, a, lo, size, E, gridSize) ==
    (8 * gridSize * (v[a] - lo[a]) + 5 * E * gridSize - 4 * gridSize * size[a])
        \div (10 * E)

\* STLParser.meshToVoxels.  With no vertex the bounding box is
\* (Infinity, -Infinity) and the second forEach marks nothing; with a largest
\* extent of 0 the scale is 0.8N / 0 = Infinity, every coordinate is
\* 0 * Infinity = NaN, every comparison with NaN is false, and nothing is
\* marked.  Neither case throws.
meshToVoxels(mesh, gridSize) ==
    LET vs == mesh.vertices
        n == Len(vs)
        lo == [a \in Axes |-> SeqMin(vs, a, 1)]
        hi == [a \in Axes |-> SeqMax(vs, a, 1)]
        size == [a \in Axes |-> hi[a] - lo[a]]
        E == SetMax({size[a] : a \in Axes})
        cell(v) == [a \in Axes |-> VoxelCoord(v, a, lo, size, E, gridSize)]
        inGrid(c) == \A a \in Axes : c[a] >= 0 /\ c[a] < gridSize
    IN  [side |-> gridSize,
         shape |-> "cells",
         cells |-> IF n = 0 THEN {}
                   ELSE IF E = 0 THEN {}
                   ELSE { <<cell(vs[k])[1], cell(vs[k])[2], cell(vs[k])[3]>> :
                            k \in { j \in 1..n : inGrid(cell(vs[j])) } }]

\* CALProjector.createTestModel: a size^3 grid of zeros, filled by the
\* switch on modelType; a type the switch does not name leaves the zeros.
createTestModel(modelType, size) ==
    [side |-> size,
     shape |-> IF modelType \in {"gear", "cube", "sphere"} THEN modelType
               ELSE "zeros",
     cells |-> {}]

\* case "cube": cubeSize = size * 0.4, start = (size - cubeSize) / 2,
\* end = start + cubeSize; the loops run from Math.floor(start) while
\* below Math.floor(end) on each axis
CubeCell(size, x, y, z) ==
    LET start == (3 * size) \div 10
        end == (7 * size) \div 10
    IN  \A c \in {x, y, z} : start <= c /\ c < end

\* a sphere about the middle of the cells, (size - 1) / 2 on each axis,
\* which C13_SphereCells tells apart from the sphere about size / 2
SphereCellAboutCellMiddle(size, x, y, z) ==
    100 * ((2 * x + 1 - size) * (2 * x + 1 - size)
           + (2 * y + 1 - size) * (2 * y + 1 - size)
           + (2 * z + 1 - size) * (2 * z + 1 - size)) <= 36 * size * size

\* case "sphere": Math.sqrt(dx^2 + dy^2 + dz^2) <= size * 0.3 with
\* center = size / 2, for every cell of the grid
SphereCell(size, x, y, z) ==
    100 * ((2 * x - size) * (2 * x - size) + (2 * y - size) * (2 * y - size)
           + (2 * z - size) * (2 * z - size)) <= 36 * size * size

\* volume[z][y][x] for indices inside the grid (the gear is not evaluated)
VoxelAt(vol, z, y, x) ==
    CASE vol.shape = "zeros" -> 0
      [] vol.shape = "cells" -> IF <<x, y, z>> \in vol.cells THEN 1 ELSE 0
      [] vol.shape = "cube" -> IF CubeCell(vol.side, x, y, z) THEN 1 ELSE 0
      [] vol.shape = "sphere" -> IF SphereCell(vol.side, x, y, z) THEN 1 ELSE 0

(***************************************************************************)
(* State of the component CALProjectorSimulator and of the one            *)
(* CALProjector it creates.  Playback and drawing (currentFrame,           *)
(* isPlaying, showGrid, showCrosshairs, the canvas) are not modelled.      *)
(***************************************************************************)
VARIABLES
    Gpu,              \* "loading" | "loaded" | "failed": the import("gpu.js") promise and the Gpu state
    projector,        \* projectorRef.current and the fields of the CALProjector
    projections,      \* useState<Projection[]>
    volumeSize,       \* useState<number>(128)
    numProjections,   \* useState<number>(180)
    modelType,        \* useState<ModelType>("gear")
    customModel,      \* useState<VoxelVolume | null>
    isGenerating,     \* useState<boolean>
    isZipping,        \* useState<boolean>
    progress,         \* useState<number>
    systemStatus,     \* useState<SystemStatus>
    statusMessage,    \* useState<string>
    gen,              \* the generateProjections call in flight: its position and its closure
    upload,           \* the handleFileUpload call in flight: its position and its closure
    export,           \* the exportImagesAsZip call in flight: its position and its closure
    reported,         \* the values the progress callback received in the current run
    probe             \* the input and the result of a function applied on its own

uiVars ==
    <<Gpu, projector, projections, volumeSize, numProjections, modelType,
      customModel, isGenerating, isZipping, progress, systemStatus,
      statusMessage, gen, upload, export, reported>>

NoProbe == [kind |-> "none"]

NoProjector ==
    [exists |-> FALSE, volumeSize |-> 0, numProjections |-> 0,
     projections |-> <<>>, hasCallback |-> FALSE, kernelOutput |-> 0]

\* new CALProjector(GpuClass, InputClass, volumeSize, numProjections): the
\* radon kernel is created here, with output [volumeSize, volumeSize]
NewProjector(size, count) ==
    [exists |-> TRUE, volumeSize |-> size, numProjections |-> count,
     projections |-> <<>>, hasCallback |-> FALSE, kernelOutput |-> size]

\* customModel: null, or the grid an upload built.  handed tells whether a
\* run has already been given this array object; it is the object's history,
\* not a field of the program
NoModel ==
    [present |-> FALSE, volume |-> createTestModel("custom", 0), handed |-> FALSE]

GenIdle ==
    [pc |-> "idle", i |-> 0, volumeSize |-> 0, numProjections |-> 0,
     modelType |-> "gear", customModel |-> NoModel,
     volume |-> createTestModel("custom", 0)]

\* the model follows one handleFileUpload call at a time
NoUpload == [pc |-> "idle", volumeSize |-> 0]

\* no exportImagesAsZip call is waiting on a promise
NoExport == [pc |-> "idle", i |-> 0, length |-> 0]

Status(text, type) == [text |-> text, type |-> type]

\* a status message: its text and the two numbers a template puts into it
Message(text) == [text |-> text, n |-> 0, of |-> 0]

MessageOf(text, n, of) == [text |-> text, n |-> n, of |-> of]

UiInit ==
    /\ Gpu = "loading"
    /\ projector = NoProjector
    /\ projections = <<>>
    /\ volumeSize = DefaultVolumeSize
    /\ numProjections = DefaultNumProjections
    /\ modelType = "gear"
    /\ customModel = NoModel
    /\ isGenerating = FALSE
    /\ isZipping = FALSE
    /\ progress = Zero
    /\ systemStatus = Status("INITIALIZING", "warn")
    /\ statusMessage = Message("Loading core libraries...")
    /\ gen = GenIdle
    /\ upload = NoUpload
    /\ export = NoExport
    /\ reported = <<>>

isLibraryLoading == Gpu # "loaded"

\* controls that stay enabled during a generation run, which
\* C20_OneCallAtATime tells apart from the controls of the page
isBusyOutsideRuns == isZipping \/ isLibraryLoading

isBusy == isGenerating \/ isZipping \/ isLibraryLoading

\* JavaScript runs a task to its next await before the host takes another
\* event: nothing else runs between the 10 ms timer and the loop's first await
HostIdle == gen.pc \in {"idle", "timer", "yield"}

(***************************************************************************)
(* generateProjections of the component, up to its first await.            *)
(***************************************************************************)
StartGeneration(p) ==
    /\ projector' = [p EXCEPT !.volumeSize = volumeSize,
                              !.numProjections = numProjections]
    /\ isGenerating' = TRUE
    /\ progress' = Zero
    /\ systemStatus' = Status("GENERATING", "error")
    /\ statusMessage' = Message("Compiling GPU kernel...")
    /\ gen' = [pc |-> "timer", i |-> 0, volumeSize |-> volumeSize,
               numProjections |-> numProjections, modelType |-> modelType,
               customModel |-> customModel,
               volume |-> createTestModel("custom", 0)]
    /\ customModel' = [customModel EXCEPT !.handed = customModel.present]

\* import("gpu.js") resolves: setGpu, and the effect on [Gpu] that React
\* runs with the commit of that render: it creates the projector and
\* starts the first generation
LoadGpu ==
    /\ Gpu = "loading"
    /\ Gpu' = "loaded"
    /\ StartGeneration(NewProjector(volumeSize, numProjections))
    /\ UNCHANGED <<probe, export, projections, volumeSize, numProjections, modelType,
                   isZipping, upload, reported>>

\* import("gpu.js") rejects
LoadGpuFailed ==
    /\ Gpu = "loading"
    /\ Gpu' = "failed"
    /\ systemStatus' = Status("ERROR", "error")
    /\ statusMessage' = Message("GPU library failed to load. Please refresh.")
    /\ UNCHANGED <<probe, export, projector, projections, volumeSize, numProjections,
                   modelType, customModel, isGenerating, isZipping, progress,
                   gen, upload, reported>>

\* the GENERATE PROJECTIONS button (disabled={isBusy})
ClickGenerate ==
    /\ HostIdle
    /\ ~isBusy
    /\ IF projector.exists
       THEN /\ StartGeneration(projector)
            /\ UNCHANGED <<probe, export, Gpu, projections, volumeSize, numProjections,
                           modelType, isZipping, upload, reported>>
       ELSE /\ statusMessage' = Message("Projector not initialized...")
            /\ UNCHANGED <<probe, export, Gpu, projector, projections, volumeSize,
                           numProjections, modelType, customModel,
                           isGenerating, isZipping, progress, systemStatus,
                           gen, upload, reported>>

(***************************************************************************)
(* CALProjector.generateProjections and the rest of the component's        *)
(* generateProjections.  In the component's state machine a projection's   *)
(* data is kept as its shape and the unit of its pixels: "raw" as the      *)
(* kernel returns it, "8bit" once normalizeProjections has rescaled it.    *)
(*                                                                         *)
(* The loop awaits a timer after every iteration with i % 10 === 0.  What  *)
(* runs between two awaits is one task of the host, so an action runs the  *)
(* iterations of one task: LoopBody is one iteration, Iterate a run of     *)
(* them.                                                                   *)
(***************************************************************************)
\* the angle of the step after i, which C4_AngleOfStep tells apart from
\* the angle of step i
AngleOfNextStep(i, count) == FracTimes(Frac(i + 1, count), FullTurn)

\* const angle = (i / this.numProjections) * 360
AngleOf(i, count) == FracTimes(Frac(i, count), FullTurn)

\* a result whose size follows the model held by the component at the time
\* of the call, which C11_YieldKeepsResult tells apart from the kernel's
KernelResultOfCurrentModel(p) ==
    LET w == IF customModel.present THEN customModel.volume.side
             ELSE p.kernelOutput
    IN  [rows |-> w, cols |-> w, unit |-> "raw", passes |-> 0]

\* the kernel's result: output [w, w] set when the kernel was created;
\* passes counts the times the normalizer has rescaled the data
KernelResult(p) ==
    [rows |-> p.kernelOutput, cols |-> p.kernelOutput, unit |-> "raw",
     passes |-> 0]

\* a push at the front of the list, which C3_ExactlyMInAngleOrder tells
\* apart from the push at the end
PushProjectionFirst(projs, angle, data) ==
    <<[angle |-> angle, data |-> data]>> \o projs

\* this.projections.push({ angle, data: projectionData })
PushProjection(projs, angle, data) == Append(projs, [angle |-> angle, data |-> data])

\* the fraction of the steps begun, which C10_ProgressReports tells apart
\* from the fraction of the steps done
ProgressOfBegun(i, count) == Frac(i, count)

\* this.progressCallback?.((i + 1) / this.numProjections)
ProgressOf(i, count) == Frac(i + 1, count)

\* two passes of the normalizer, which C17_NormalizedOnceAtTheEnd tells
\* apart from one
NormalizeInPlaceTwice(projs) ==
    [k \in 1..Len(projs) |->
        [projs[k] EXCEPT !.data = [projs[k].data EXCEPT !.unit = "8bit",
                                                        !.passes = @ + 2]]]

\* normalizeProjections, on the shapes: every projection's data is replaced
\* by its rescaled copy, the sequence itself is untouched
NormalizeInPlace(projs) ==
    [k \in 1..Len(projs) |->
        [projs[k] EXCEPT !.data = [projs[k].data EXCEPT !.unit = "8bit",
                                                        !.passes = @ + 1]]]

\* Math.round(p * numProjections) for p = n / d
RoundTimes(p, count) == (2 * p[1] * count + p[2]) \div (2 * p[2])

\* what one iteration reads and writes
LoopState ==
    [projector |-> projector, progress |-> progress,
     statusMessage |-> statusMessage, reported |-> reported]

\* iteration i with a kernel call that returns: push, then the callback
\* (setProgress, setStatusMessage with the numProjections of the closure)
LoopBody(st, i) ==
    LET pr == st.projector
        angle == AngleOf(i, pr.numProjections)
        p == ProgressOf(i, pr.numProjections)
        pushed == [pr EXCEPT !.projections =
                        PushProjection(@, angle, KernelResult(pr))]
    IN  IF pr.hasCallback
        THEN [projector |-> pushed,
              progress |-> p,
              statusMessage |-> MessageOf("Processing angle",
                                          RoundTimes(p, gen.numProjections),
                                          gen.numProjections),
              reported |-> Append(st.reported, p)]
        ELSE [st EXCEPT !.projector = pushed]

RECURSIVE Iterate(_, _, _)
\* iterations i, i + 1, ..., stop - 1, in this order; s and k name the
\* values of st and i, so that each iteration is worked out once
Iterate(st, i, stop) ==
    IF i >= stop THEN st
    ELSE CHOOSE r \in { Iterate(LoopBody(s, k), k + 1, stop) :
                            s \in {st}, k \in {i} } : TRUE

\* the first index j >= i with j % 10 === 0: the iteration after which the
\* task that runs iteration i awaits
NextYield(i) == i + ((YieldEvery - (i % YieldEvery)) % YieldEvery)

SetLoopState(st) ==
    \E s \in {st} :
        /\ projector' = s.projector
        /\ progress' = s.progress
        /\ statusMessage' = s.statusMessage
        /\ reported' = s.reported

\* the 10 ms timer fires: the callback is set, the volume is chosen, and
\* CALProjector.generateProjections runs up to its loop
BeginProjecting ==
    /\ gen.pc = "timer"
    /\ LET volume == IF gen.customModel.present THEN gen.customModel.volume
                     ELSE createTestModel(gen.modelType, projector.volumeSize)
       IN  /\ gen' = [gen EXCEPT !.pc = "loop", !.i = 0, !.volume = volume]
           /\ projector' = [projector EXCEPT !.hasCallback = TRUE,
                                             !.projections = <<>>]
    /\ reported' = <<>>
    /\ UNCHANGED <<probe, export, Gpu, projections, volumeSize, numProjections, modelType,
                   customModel, isGenerating, isZipping, progress,
                   systemStatus, statusMessage, upload>>

\* new this.InputClass(flatVolume, [N, N, N]) for a volume whose side is not
\* N: the constructor is the library's, and may throw on the mismatch
InputRejected ==
    /\ gen.pc = "timer"
    /\ gen.customModel.present
    /\ gen.customModel.volume.side # projector.volumeSize
    /\ projector' = [projector EXCEPT !.hasCallback = TRUE,
                                      !.projections = <<>>]
    /\ reported' = <<>>
    /\ systemStatus' = Status("GPU ERROR", "error")
    /\ statusMessage' = Message("Hardware limit reached. Try a lower resolution.")
    /\ projections' = <<>>
    /\ isGenerating' = FALSE
    /\ gen' = GenIdle
    /\ UNCHANGED <<probe, export, Gpu, volumeSize, numProjections, modelType, customModel,
                   isZipping, progress, upload>>

\* a task of the loop that ends in the await: iterations gen.i .. NextYield
ProjectUntilYield ==
    /\ gen.pc \in {"loop", "yield"}
    /\ NextYield(gen.i) < projector.numProjections
    /\ SetLoopState(Iterate(LoopState, gen.i, NextYield(gen.i) + 1))
    /\ gen' = [gen EXCEPT !.pc = "yield", !.i = NextYield(gen.i) + 1]
    /\ UNCHANGED <<probe, export, Gpu, projections, volumeSize, numProjections, modelType,
                   customModel, isGenerating, isZipping, systemStatus, upload>>

\* the kernel call of iteration f throws: the iterations before it in this
\* task have run, then the catch and finally blocks of the component
KernelThrows ==
    /\ gen.pc \in {"loop", "yield"}
    /\ \E f \in gen.i..NextYield(gen.i) :
        /\ f < projector.numProjections
        /\ f < MaxFailingAngle
        /\ SetLoopState([Iterate(LoopState, gen.i, f) EXCEPT
                            !.statusMessage =
                                Message("Hardware limit reached. Try a lower resolution.")])
    /\ systemStatus' = Status("GPU ERROR", "error")
    /\ projections' = <<>>
    /\ isGenerating' = FALSE
    /\ gen' = GenIdle
    /\ UNCHANGED <<probe, export, Gpu, volumeSize, numProjections, modelType, customModel,
                   isZipping, upload>>

\* the last task of the loop: the remaining iterations, normalizeProjections,
\* return, and the component's continuation up to its finally block
ProjectAndFinish ==
    /\ gen.pc \in {"loop", "yield"}
    /\ NextYield(gen.i) >= projector.numProjections
    /\ \E st \in {Iterate(LoopState, gen.i, projector.numProjections)} :
       \E projs \in {NormalizeInPlace(st.projector.projections)} :
           /\ SetLoopState([st EXCEPT
                    !.projector = [@ EXCEPT !.projections = projs],
                    !.statusMessage =
                        MessageOf("Generated projections.", gen.numProjections, 0)])
           /\ projections' = projs
    /\ systemStatus' = Status("READY", "ok")
    /\ isGenerating' = FALSE
    /\ gen' = GenIdle
    /\ UNCHANGED <<probe, export, Gpu, volumeSize, numProjections, modelType, customModel,
                   isZipping, upload>>

(***************************************************************************)
(* The controls (each disabled={isBusy}) and handleFileUpload.             *)
(***************************************************************************)
\* the VOXEL RESOLUTION slider
ChangeResolution ==
    /\ HostIdle
    /\ ~isBusy
    /\ \E r \in Resolutions \ {volumeSize} : volumeSize' = r
    /\ UNCHANGED <<probe, export, Gpu, projector, projections, numProjections, modelType,
                   customModel, isGenerating, isZipping, progress,
                   systemStatus, statusMessage, gen, upload, reported>>

\* the PROJECTION COUNT slider
ChangeCount ==
    /\ HostIdle
    /\ ~isBusy
    /\ \E m \in ProjectionCounts \ {numProjections} : numProjections' = m
    /\ UNCHANGED <<probe, export, Gpu, projector, projections, volumeSize, modelType,
                   customModel, isGenerating, isZipping, progress,
                   systemStatus, statusMessage, gen, upload, reported>>

\* the model select: CUSTOM MODEL is an option only while customModel is set
SelectModel ==
    /\ HostIdle
    /\ ~isBusy
    /\ \E t \in ({"gear", "cube", "sphere"}
                   \cup (IF customModel.present THEN {"custom"} ELSE {}))
                \ {modelType} :
          modelType' = t
    /\ customModel' = NoModel
    /\ UNCHANGED <<probe, export, Gpu, projector, projections, volumeSize, numProjections,
                   isGenerating, isZipping, progress, systemStatus,
                   statusMessage, gen, upload, reported>>

\* a file is chosen: handleFileUpload up to await file.arrayBuffer()
UploadStart ==
    /\ HostIdle
    /\ ~isBusy
    /\ upload.pc = "idle"
    /\ systemStatus' = Status("LOADING MODEL", "warn")
    /\ statusMessage' = Message("Parsing file...")
    /\ upload' = [pc |-> "reading", volumeSize |-> volumeSize]
    /\ UNCHANGED <<probe, export, Gpu, projector, projections, volumeSize, numProjections,
                   modelType, customModel, isGenerating, isZipping, progress,
                   gen, reported>>

\* a file whose name does not end in .stl: the throw and the catch
UploadWrongType ==
    /\ HostIdle
    /\ ~isBusy
    /\ upload.pc = "idle"
    /\ systemStatus' = Status("ERROR", "error")
    /\ statusMessage' = Message("Invalid file type. Please upload an STL file.")
    /\ UNCHANGED <<probe, export, Gpu, projector, projections, volumeSize, numProjections,
                   modelType, customModel, isGenerating, isZipping, progress,
                   gen, upload, reported>>

\* the buffer arrives and parses: up to the 10 ms timer
UploadParsed ==
    /\ HostIdle
    /\ upload.pc = "reading"
    /\ upload' = [upload EXCEPT !.pc = "voxelizing"]
    /\ statusMessage' = Message("Voxelizing model...")
    /\ UNCHANGED <<probe, export, Gpu, projector, projections, volumeSize, numProjections,
                   modelType, customModel, isGenerating, isZipping, progress,
                   systemStatus, gen, reported>>

\* the buffer arrives and the parser throws (parseBinary on a short buffer)
UploadParseFails ==
    /\ HostIdle
    /\ upload.pc = "reading"
    /\ upload' = NoUpload
    /\ systemStatus' = Status("ERROR", "error")
    /\ statusMessage' = Message("Failed to load or parse model.")
    /\ UNCHANGED <<probe, export, Gpu, projector, projections, volumeSize, numProjections,
                   modelType, customModel, isGenerating, isZipping, progress,
                   gen, reported>>

\* the timer fires: meshToVoxels of the parsed mesh with the volumeSize of the
\* render that started the upload, setCustomModel, setModelType("custom")
UploadVoxelized ==
    /\ HostIdle
    /\ upload.pc = "voxelizing"
    /\ \E mesh \in UploadMeshes :
          customModel' = [present |-> TRUE,
                          volume |-> meshToVoxels(mesh, upload.volumeSize),
                          handed |-> FALSE]
    /\ upload' = NoUpload
    /\ modelType' = "custom"
    /\ systemStatus' = Status("MODEL LOADED", "ok")
    /\ statusMessage' = Message("file successfully voxelized.")
    /\ UNCHANGED <<probe, export, Gpu, projector, projections, volumeSize, numProjections,
                   isGenerating, isZipping, progress, gen, reported>>

(***************************************************************************)
(* exportImagesAsZip.  The call awaits canvas.toBlob in every iteration    *)
(* and a timer after every iteration with i % 10 === 0, then               *)
(* zip.generateAsync.  It has no try block: an exception ends the call and *)
(* leaves the state as it is.                                              *)
(***************************************************************************)
\* the pixel loop of one iteration reads proj.data[y][x] for y, x below the
\* volumeSize of the closure; proj.data[y] is undefined for y beyond the
\* rows of the grid, and reading [x] of it throws a TypeError
PixelLoopThrows(proj, size) == size > proj.data.rows

\* after iteration i, with msg the status message at that point: the next
\* iteration up to its await, or the end of the loop up to
\* await zip.generateAsync
ExportAdvance(i, msg) ==
    IF i + 1 < export.length
    THEN /\ export' = [export EXCEPT !.pc = "blob", !.i = i + 1]
         /\ statusMessage' = msg
    ELSE /\ export' = [export EXCEPT !.pc = "zip"]
         /\ statusMessage' = Message("Compressing ZIP file...")

\* the EXPORT IMAGES button (disabled={isBusy || projections.length === 0}):
\* the call up to its first await.  The grids of a set have one size, so
\* the pixel loop throws in the first iteration or in none.
ClickExport ==
    /\ HostIdle
    /\ ~isBusy
    /\ projections # <<>>
    /\ isZipping' = TRUE
    /\ systemStatus' = Status("EXPORTING", "warn")
    /\ export' = IF PixelLoopThrows(projections[1], volumeSize) THEN NoExport
                 ELSE [pc |-> "blob", i |-> 0, length |-> Len(projections)]
    /\ UNCHANGED <<probe, Gpu, projector, projections, volumeSize, numProjections,
                   modelType, customModel, isGenerating, progress,
                   statusMessage, gen, upload, reported>>

\* the click when getContext("2d") returns null
ClickExportNoContext ==
    /\ HostIdle
    /\ ~isBusy
    /\ projections # <<>>
    /\ systemStatus' = Status("ERROR", "error")
    /\ statusMessage' = Message("Could not create off-screen context for export.")
    /\ UNCHANGED <<probe, Gpu, projector, projections, volumeSize, numProjections,
                   modelType, customModel, isGenerating, isZipping, progress,
                   gen, upload, export, reported>>

\* toBlob calls back for iteration i: zip.file, the message, and either the
\* await of the timer or the next step
ExportBlob ==
    /\ HostIdle
    /\ export.pc = "blob"
    /\ IF export.i % YieldEvery = 0
       THEN /\ export' = [export EXCEPT !.pc = "timer"]
            /\ statusMessage' = MessageOf("Zipping image", export.i + 1, export.length)
       ELSE ExportAdvance(export.i,
                          MessageOf("Zipping image", export.i + 1, export.length))
    /\ UNCHANGED <<probe, Gpu, projector, projections, volumeSize, numProjections,
                   modelType, customModel, isGenerating, isZipping, progress,
                   systemStatus, gen, upload, reported>>

\* the timer after an iteration with i % 10 === 0 fires
ExportTimer ==
    /\ HostIdle
    /\ export.pc = "timer"
    /\ ExportAdvance(export.i, statusMessage)
    /\ UNCHANGED <<probe, Gpu, projector, projections, volumeSize, numProjections,
                   modelType, customModel, isGenerating, isZipping, progress,
                   systemStatus, gen, upload, reported>>

\* zip.generateAsync resolves: the download, setIsZipping(false), READY
ExportZipped ==
    /\ HostIdle
    /\ export.pc = "zip"
    /\ export' = NoExport
    /\ isZipping' = FALSE
    /\ systemStatus' = Status("READY", "ok")
    /\ statusMessage' = Message("Export complete.")
    /\ UNCHANGED <<probe, Gpu, projector, projections, volumeSize, numProjections,
                   modelType, customModel, isGenerating, progress, gen, upload,
                   reported>>

Next ==
    \/ LoadGpu
    \/ LoadGpuFailed
    \/ ClickGenerate
    \/ BeginProjecting
    \/ InputRejected
    \/ ProjectUntilYield
    \/ KernelThrows
    \/ ProjectAndFinish
    \/ ChangeResolution
    \/ ChangeCount
    \/ SelectModel
    \/ UploadStart
    \/ UploadWrongType
    \/ UploadParsed
    \/ UploadParseFails
    \/ UploadVoxelized
    \/ ClickExport
    \/ ClickExportNoContext
    \/ ExportBlob
    \/ ExportTimer
    \/ ExportZipped

vars == <<uiVars, probe>>

Init == UiInit /\ probe = NoProbe

Spec == Init /\ [][Next]_vars

\* the continuations of a generation run: the 10 ms timer and the timer of
\* each yield fire, and the task they resume runs to its next await
RunTask ==
    \/ BeginProjecting
    \/ InputRejected
    \/ ProjectUntilYield
    \/ KernelThrows
    \/ ProjectAndFinish

\* the continuations of an export: toBlob calls back, the timer fires,
\* zip.generateAsync resolves
ExportTask == ExportBlob \/ ExportTimer \/ ExportZipped

\* the host's event loop runs every callback that is due: a pending
\* continuation is not postponed for ever
FairSpec == Spec /\ WF_vars(RunTask) /\ WF_vars(ExportTask)

(***************************************************************************)
(* Properties of the generation run.                                       *)
(***************************************************************************)
AllEightBit(projs) == \A k \in 1..Len(projs) : projs[k].data.unit = "8bit"

\* no run is in flight and the projector holds the set its last run returned
RunCompleted ==
    /\ gen.pc = "idle"
    /\ projector.projections # <<>>
    /\ AllEightBit(projector.projections)

\* the projector's fields belong to one run: between the start of a run and
\* the 10 ms timer, projections is still the previous run's
SameRun == projector.exists /\ gen.pc # "timer"

\* a set that may be shown: nothing, or all of a run's projections, rescaled
WholeOrNothing(projs, count) ==
    \/ projs = <<>>
    \/ Len(projs) = count /\ AllEightBit(projs)

\* C1: once a run has failed in a Projecting step (or has ended in any way),
\* neither the projector's projections field nor the component's projections
\* state holds an incomplete or un-normalized set.
C1_PartialSetDiscarded ==
    gen.pc = "idle" =>
        /\ WholeOrNothing(projector.projections, projector.numProjections)
        /\ AllEightBit(projections)

\* C2: every projection of a completed run is an N x N grid, N the
\* resolution of that run.
C2_ProjectionsAreNByN ==
    RunCompleted =>
        \A k \in 1..Len(projector.projections) :
            /\ projector.projections[k].data.rows = projector.volumeSize
            /\ projector.projections[k].data.cols = projector.volumeSize

\* C3: during a run one projection has been appended per completed step; a
\* completed run returns exactly M projections in strictly ascending angle
\* order, and that is the set the component receives.
C3_ExactlyMInAngleOrder ==
    /\ gen.pc \in {"loop", "yield"} => Len(projector.projections) = gen.i
    /\ RunCompleted =>
        /\ Len(projector.projections) = projector.numProjections
        /\ \A k \in 1..(Len(projector.projections) - 1) :
              FracLess(projector.projections[k].angle,
                       projector.projections[k + 1].angle)
        /\ projections = projector.projections

C3_Witness ==
    /\ RunCompleted
    /\ Len(projections) = CountMin

\* C4: the projection appended at step i carries the angle 360 i / M; the
\* angles are strictly increasing and the first is 0.
C4_AngleOfStep ==
    SameRun =>
        \A k \in 1..Len(projector.projections) :
            /\ projector.projections[k].angle =
                    Frac(FullTurn * (k - 1), projector.numProjections)
            /\ k = 1 => projector.projections[k].angle = Zero
            /\ k > 1 => FracLess(projector.projections[k - 1].angle,
                                 projector.projections[k].angle)

C4_Witness ==
    /\ RunCompleted
    /\ Len(projector.projections) = DefaultNumProjections

\* C9: the grid handed to the projection steps is cubic of side N, the
\* resolution of the run.
C9_VolumeSideIsN ==
    gen.pc \in {"loop", "yield"} =>
        /\ gen.volume.side = gen.volumeSize
        /\ gen.volume.side = projector.volumeSize

\* C10: the k-th value the observer receives in a run is k / M: one report
\* per angle, each in [0, 1], strictly increasing, and 1 at the end of a
\* run that succeeds.
C10_ProgressReports ==
    SameRun =>
        /\ Len(reported) = Len(projector.projections)
        /\ \A k \in 1..Len(reported) :
              /\ reported[k] = Frac(k, projector.numProjections)
              /\ FracLeq(Zero, reported[k]) /\ FracLeq(reported[k], One)
              /\ k > 1 => FracLess(reported[k - 1], reported[k])
        /\ RunCompleted => reported[Len(reported)] = One

C10_Witness ==
    /\ gen.pc = "yield"
    /\ Len(reported) > YieldEvery

\* what the loop reads: the flattened volume and the projector's fields
LoopInputs ==
    <<gen.volume, projector.volumeSize, projector.numProjections,
      projector.kernelOutput>>

\* the set the run returns when its loop never awaits: all iterations in one
\* task, from the empty list, then the normalizer
RunWithoutYield ==
    LET start == [LoopState EXCEPT !.projector.projections = <<>>,
                                   !.reported = <<>>]
    IN  NormalizeInPlace(
            Iterate(start, 0, projector.numProjections).projector.projections)

\* C11: whatever the host runs at the awaits of the loop (an upload that
\* completes, events of the controls), the loop's inputs stay what they
\* were, and the set a run returns, and the component receives, is the set
\* the same run produces without any await.
C11_YieldKeepsResult ==
    [][ /\ (gen.pc \in {"loop", "yield"} /\ gen'.pc \in {"loop", "yield"})
            => LoopInputs' = LoopInputs
        /\ (gen.pc \in {"loop", "yield"} /\ gen'.pc = "idle"
                /\ systemStatus'.text = "READY")
            => /\ projector'.projections = RunWithoutYield
               /\ projections' = RunWithoutYield ]_vars

\* a run has returned, and during it an upload installed a grid that no run
\* has been given
C11_Witness ==
    /\ RunCompleted
    /\ statusMessage.text = "Generated projections."
    /\ customModel.present
    /\ ~customModel.handed

\* the grid of the run in flight was already given to an earlier run
GridReused == gen.customModel.present /\ gen.customModel.handed

\* C12: a run works on a grid no earlier run was given and on a projection
\* sequence that starts empty, and while it runs the set an earlier run
\* returned stays as it was.
C12_FreshGridAndSequence ==
    [][ gen'.pc \in {"loop", "yield"} =>
            /\ ~GridReused'
            /\ Len(projector'.projections) = gen'.i
            /\ projections' = projections ]_vars

\* C16: during the Projecting phase control is yielded to the host after
\* the 10th, 20th, 30th, ... completed angle and at no other step: a run
\* that waits at a yield has completed a positive multiple of 10 angles, and
\* no task of the loop runs past such a multiple without yielding at it.
C16_YieldAfterEveryTenth ==
    [][ /\ gen'.pc = "yield" =>
              /\ Len(projector'.projections) > 0
              /\ Len(projector'.projections) % YieldEvery = 0
        /\ (gen.pc \in {"loop", "yield"} /\ gen'.pc \in {"loop", "yield"}) =>
              ~ \E n \in (Len(projector.projections) + 1)
                            ..(Len(projector'.projections) - 1) :
                    n % YieldEvery = 0 ]_vars

\* every projection of the list has been rescaled n times
RescaledTimes(projs, n) == \A k \in 1..Len(projs) : projs[k].data.passes = n

\* C17: no projection is rescaled while the loop is still running; a run
\* that returns has rescaled each of its M projections exactly once, after
\* the last was appended; a run that failed in the loop has rescaled none;
\* the set the component holds was rescaled exactly once.
C17_NormalizedOnceAtTheEnd ==
    /\ gen.pc \in {"loop", "yield"} => RescaledTimes(projector.projections, 0)
    /\ (gen.pc = "idle" /\ projector.exists) =>
          \/ RescaledTimes(projector.projections, 0)
                /\ Len(projector.projections) < projector.numProjections
          \/ RescaledTimes(projector.projections, 1)
                /\ Len(projector.projections) = projector.numProjections
    /\ RescaledTimes(projections, 1)

\* a run of the smallest count has returned, and the component holds its set
C17_Witness ==
    /\ gen.pc = "idle"
    /\ Len(projector.projections) = CountMin
    /\ RescaledTimes(projector.projections, 1)
    /\ Len(reported) = CountMin
    /\ numProjections = CountMin
    /\ projections = projector.projections

\* an exportImagesAsZip call is waiting on a promise: toBlob, the timer or
\* zip.generateAsync
ExportInFlight == export.pc # "idle"

\* C19: every export started on a non-empty set finishes and sets isZipping
\* back to false, whatever the resolution setting when export is pressed.
\* Only the call that set the flag resets it, at its end, so the flag is
\* never set without a call in flight that has still to reach that end.
C19_ExportResetsIsZipping == isZipping => ExportInFlight

\* a generateProjections call of the component is in flight
RunInFlight == gen.pc # "idle"

\* this step starts a generation run: a call reaches its 10 ms timer
RunStarts == gen'.pc = "timer" /\ gen.pc # "timer"

\* this step starts an export: a call sets isZipping, or reaches its first
\* toBlob
ExportStarts ==
    \/ isZipping' /\ ~isZipping
    \/ export'.pc = "blob" /\ export.pc = "idle"

\* C20: two generation runs are never in flight together, nor a run
\* together with an export; a run or an export starts only while
\* isGenerating and isZipping are both false and the GPU library has been
\* loaded; every run that starts sets isGenerating back to false in the
\* end, on success and on failure.
C20_OneCallAtATime ==
    /\ [](~(RunInFlight /\ ExportInFlight))
    /\ [](isGenerating <=> RunInFlight)
    /\ [][(RunStarts \/ ExportStarts) =>
            /\ ~isGenerating /\ ~isZipping
            /\ ~RunInFlight /\ ~ExportInFlight
            /\ Gpu' = "loaded"]_vars
    /\ (isGenerating ~> ~isGenerating)

\* a run started from the button is at an await of its loop while the set
\* of the run before it is still held, so only the disabled button keeps
\* an export from starting
C20_Witness ==
    /\ gen.pc = "yield"
    /\ isGenerating
    /\ ~isZipping
    /\ ~ExportInFlight
    /\ projections # <<>>

(***************************************************************************)
(* CALProjector.normalizeProjections on pixel values.  A raw value is an   *)
(* integer count of 1 / RawUnit; data is a sequence of rows.               *)
(***************************************************************************)
PixelValues(projs) ==
    UNION { UNION { { projs[k].data[r][c] : c \in 1..Len(projs[k].data[r]) } :
                    r \in 1..Len(projs[k].data) } :
            k \in 1..Len(projs) }

SetMin(S) == CHOOSE m \in S : \A n \in S : m <= n

\* the first pass: globalMin and globalMax over every pixel of every projection
GlobalMin(projs) == SetMin(PixelValues(projs))

GlobalMax(projs) == SetMax(PixelValues(projs))

\* a range measured from 0 instead of from globalMin, which
\* C5_NormalizedExtrema tells apart from the range of the values
NormRangeFromZero(projs) ==
    IF GlobalMax(projs) = 0 THEN RawUnit ELSE GlobalMax(projs)

\* a range never below 1, which C15_RangeIsSpreadOrOne tells apart from
\* the spread that is replaced only when it is 0
NormRangeAtLeastOne(projs) ==
    LET d == GlobalMax(projs) - GlobalMin(projs)
    IN  IF d < RawUnit THEN RawUnit ELSE d

\* const range = globalMax - globalMin || 1, in counts of 1 / RawUnit
NormRange(projs) ==
    LET d == GlobalMax(projs) - GlobalMin(projs)
    IN  IF d = 0 THEN RawUnit ELSE d

\* Math.round(((val - globalMin) / range) * 255); Math.round(x) is
\* Math.floor(x + 0.5)
Rescale(val, lo, range) ==
    (2 * EightBitMax * (val - lo) + range) \div (2 * range)

\* the second pass: proj.data = proj.data.map(row => row.map(...))
normalizeProjections(projs) ==
    IF PixelValues(projs) = {} THEN projs
    ELSE LET lo == GlobalMin(projs)
             range == NormRange(projs)
         IN  [k \in 1..Len(projs) |->
                [projs[k] EXCEPT !.data =
                    [r \in 1..Len(projs[k].data) |->
                        [c \in 1..Len(projs[k].data[r]) |->
                            Rescale(projs[k].data[r][c], lo, range)]]]]

\* the sets given to the normalizer: one or two projections of one row of
\* two pixels
RawRows == [1..1 -> [1..2 -> 0..MaxRaw]]

NormalizerInputs ==
    UNION { [1..n -> { [angle |-> Zero, data |-> d] : d \in RawRows }] : n \in 1..2 }

NormalizerInit ==
    /\ UiInit
    /\ probe \in { [kind |-> "normalizer", input |-> in, output |-> <<>>,
                    done |-> FALSE] : in \in NormalizerInputs }

RunNormalizer ==
    /\ probe.kind = "normalizer"
    /\ ~probe.done
    /\ probe' = [probe EXCEPT !.output = normalizeProjections(probe.input),
                              !.done = TRUE]
    /\ UNCHANGED uiVars

SpecNormalizer == NormalizerInit /\ [][RunNormalizer]_vars

\* C5: after the normalizer has run over a non-empty set, the least pixel
\* value of the whole set is 0 and the greatest is 255, unless all raw
\* values are equal, and then every pixel is 0.
C5_NormalizedExtrema ==
    (probe.kind = "normalizer" /\ probe.done) =>
        LET in == PixelValues(probe.input)
            out == PixelValues(probe.output)
        IN  IF Cardinality(in) = 1
            THEN out = {0}
            ELSE SetMin(out) = 0 /\ SetMax(out) = EightBitMax

C5_Witness ==
    /\ probe.kind = "normalizer"
    /\ probe.done
    /\ Len(probe.input) = 2
    /\ Cardinality(PixelValues(probe.input)) > 2
    /\ SetMin(PixelValues(probe.input)) > 0

\* out is round((val - lo) / range * 255), Math.round taking halves up
IsRoundedShare(out, val, lo, range) ==
    /\ 2 * range * out <= 2 * EightBitMax * (val - lo) + range
    /\ 2 * EightBitMax * (val - lo) + range < 2 * range * (out + 1)

\* every pixel of the output is the rounded share of its raw value for the
\* extrema of the input and the given range
RescaledWith(range) ==
    /\ Len(probe.output) = Len(probe.input)
    /\ \A k \in 1..Len(probe.input) :
          /\ probe.output[k].angle = probe.input[k].angle
          /\ \A r \in 1..Len(probe.input[k].data) :
                \A c \in 1..Len(probe.input[k].data[r]) :
                    IsRoundedShare(probe.output[k].data[r][c],
                                   probe.input[k].data[r][c],
                                   SetMin(PixelValues(probe.input)), range)

\* the spread max - min of the raw values, in counts of 1 / RawUnit
Spread == SetMax(PixelValues(probe.input)) - SetMin(PixelValues(probe.input))

\* C15 as stated: the divisor is range = max(max - min, 1), and every pixel
\* becomes round((value - min) / range * 255).
C15_RangeIsMaxOfSpreadAndOne ==
    (probe.kind = "normalizer" /\ probe.done) =>
        RescaledWith(IF Spread < RawUnit THEN RawUnit ELSE Spread)

\* C15: the divisor is range = max - min when that is not 0 and 1 when all
\* raw values are equal, and every pixel becomes
\* round((value - min) / range * 255).
C15_RangeIsSpreadOrOne ==
    (probe.kind = "normalizer" /\ probe.done) =>
        RescaledWith(IF Spread = 0 THEN RawUnit ELSE Spread)

\* the normalizer has run on values whose spread is above 0 and below 1
C15_Witness ==
    /\ probe.kind = "normalizer"
    /\ probe.done
    /\ Spread > 0
    /\ Spread < RawUnit

(***************************************************************************)
(* STLParser.meshToVoxels on its own.                                      *)
(***************************************************************************)
Points == (0..MaxCoord) \X (0..MaxCoord) \X (0..MaxCoord)

\* the triangles the parsers build: one for every three vertices read
TrianglesOf(n) == [t \in 1..(n \div 3) |-> <<3 * t - 3, 3 * t - 2, 3 * t - 1>>]

Meshes ==
    { [vertices |-> vs, triangles |-> TrianglesOf(Len(vs))] :
        vs \in UNION { [1..n -> Points] : n \in 0..MaxVertices } }
      \cup UploadMeshes

\* no vertex, or a bounding box of extent 0 on every axis
Degenerate(mesh) ==
    \A j, k \in 1..Len(mesh.vertices) : mesh.vertices[j] = mesh.vertices[k]

VoxelizerInit ==
    /\ UiInit
    /\ probe \in { [kind |-> "voxelizer", mesh |-> m, gridSize |-> n,
                    outcome |-> "none", volume |-> createTestModel("custom", 0)] :
                   m \in Meshes, n \in Resolutions }

\* parser.meshToVoxels(mesh, volumeSize): the function has no throw
\* statement and indexes only inside the grid, so the call returns
Voxelize ==
    /\ probe.kind = "voxelizer"
    /\ probe.outcome = "none"
    /\ probe' = [probe EXCEPT !.outcome = "returned",
                              !.volume = meshToVoxels(probe.mesh, probe.gridSize)]
    /\ UNCHANGED uiVars

SpecVoxelizer == VoxelizerInit /\ [][Voxelize]_vars

\* C6: voxelizing a degenerate mesh (no vertex, or zero extent on every
\* axis) fails with an InvalidMeshError and never returns a grid.
C6_DegenerateMeshFails ==
    (probe.kind = "voxelizer" /\ probe.outcome # "none" /\ Degenerate(probe.mesh))
        => probe.outcome = "threw"

\* the least and the greatest coordinate of the mesh on axis a
LeastOn(mesh, a) ==
    SetMin({ mesh.vertices[k][a] : k \in 1..Len(mesh.vertices) })

GreatestOn(mesh, a) ==
    SetMax({ mesh.vertices[k][a] : k \in 1..Len(mesh.vertices) })

\* the largest extent of the bounding box
LargestExtent(mesh) ==
    SetMax({ GreatestOn(mesh, a) - LeastOn(mesh, a) : a \in Axes })

\* the cells c in [0, N) with c <= (v[a] - min) * scale + offset < c + 1 for
\* scale = 0.8 N / E and offset = (N - extent * scale) / 2; all terms are
\* multiplied by 10 E
StatedCells(mesh, v, a, N) ==
    LET E == LargestExtent(mesh)
        extent == GreatestOn(mesh, a) - LeastOn(mesh, a)
        t == 8 * N * (v[a] - LeastOn(mesh, a)) + 5 * E * N - 4 * N * extent
    IN  { c \in 0..(N - 1) : 10 * E * c <= t /\ t < 10 * E * (c + 1) }

\* the cells <<x, y, z>> the vertices of the mesh fall into
StatedGrid(mesh, N) ==
    UNION { StatedCells(mesh, mesh.vertices[k], 1, N)
                \X StatedCells(mesh, mesh.vertices[k], 2, N)
                \X StatedCells(mesh, mesh.vertices[k], 3, N) :
            k \in 1..Len(mesh.vertices) }

\* C18: for a non-degenerate mesh, cell (x, y, z) holds 1 (at voxels[z][y][x])
\* iff some vertex's transformed, floored coordinate is (x, y, z) inside the
\* grid; every other cell holds 0, and the triangles play no part.
C18_OccupiedCells ==
    (probe.kind = "voxelizer" /\ probe.outcome = "returned"
        /\ ~Degenerate(probe.mesh)) =>
        /\ probe.volume.side = probe.gridSize
        /\ probe.volume.shape = "cells"
        /\ probe.volume.cells = StatedGrid(probe.mesh, probe.gridSize)
        /\ \A c \in StatedGrid(probe.mesh, probe.gridSize) :
              VoxelAt(probe.volume, c[3], c[2], c[1]) = 1

\* a mesh of one triangle whose three vertices fall into different cells
C18_Witness ==
    /\ probe.kind = "voxelizer"
    /\ probe.outcome = "returned"
    /\ Len(probe.mesh.triangles) = 1
    /\ Cardinality(probe.volume.cells) = 3

(***************************************************************************)
(* CALProjector.createTestModel on its own, at the smallest resolution:    *)
(* the row y, z of the grid is read back.                                  *)
(***************************************************************************)
TestModelInit ==
    /\ UiInit
    /\ probe \in { [kind |-> "testmodel", modelType |-> t, size |-> ResolutionMin,
                    y |-> y, z |-> z, row |-> {}, done |-> FALSE] :
                   t \in {"cube", "sphere"},
                   y \in 0..(ResolutionMin - 1), z \in 0..(ResolutionMin - 1) }

ReadRow ==
    /\ probe.kind = "testmodel"
    /\ ~probe.done
    /\ LET model == createTestModel(probe.modelType, probe.size)
       IN  probe' = [probe EXCEPT
                        !.row = { x \in 0..(probe.size - 1) :
                                    VoxelAt(model, probe.z, probe.y, x) = 1 },
                        !.done = TRUE]
    /\ UNCHANGED uiVars

SpecTestModel == TestModelInit /\ [][ReadRow]_vars

\* c lies in [round((N - 0.4 N) / 2), round((N - 0.4 N) / 2) + 0.4 N)
InStatedInterval(c, N) ==
    LET lo == (6 * N + 10) \div 20
    IN  lo <= c /\ 10 * c < 10 * lo + 4 * N

\* C7: cell (x, y, z) of the cube model at N = 64 is occupied iff each of
\* x, y, z lies in [round((N - 0.4 N) / 2), round((N - 0.4 N) / 2) + 0.4 N).
C7_CubeCells ==
    (probe.kind = "testmodel" /\ probe.done /\ probe.modelType = "cube") =>
        \A x \in 0..(probe.size - 1) :
            x \in probe.row <=>
                /\ InStatedInterval(x, probe.size)
                /\ InStatedInterval(probe.y, probe.size)
                /\ InStatedInterval(probe.z, probe.size)

\* the Euclidean distance of (x, y, z) from (N / 2, N / 2, N / 2) is at most
\* 0.3 N, for even N: 10 * distance <= 3 N, squared
WithinRadius(x, y, z, N) ==
    LET c == N \div 2
        d2 == (x - c) * (x - c) + (y - c) * (y - c) + (z - c) * (z - c)
    IN  100 * d2 <= 9 * N * N

\* C13: cell (x, y, z) of the sphere model at N = 64 is occupied iff its
\* distance from the centre (N / 2, N / 2, N / 2) is at most 0.3 N; the
\* centre cell is occupied and the corner cells are not.
C13_SphereCells ==
    (probe.kind = "testmodel" /\ probe.done /\ probe.modelType = "sphere") =>
        LET N == probe.size
        IN  /\ \A x \in 0..(N - 1) :
                  x \in probe.row <=> WithinRadius(x, probe.y, probe.z, N)
            /\ (probe.y = N \div 2 /\ probe.z = N \div 2) => (N \div 2) \in probe.row
            /\ (probe.y \in {0, N - 1} /\ probe.z \in {0, N - 1})
                    => probe.row \cap {0, N - 1} = {}

\* the row through the centre has been read, and holds cells on both sides
\* of the sphere's surface
C13_Witness ==
    /\ probe.kind = "testmodel"
    /\ probe.done
    /\ probe.modelType = "sphere"
    /\ probe.y = probe.size \div 2
    /\ probe.z = probe.size \div 2
    /\ probe.row # {}
    /\ probe.row # 0..(probe.size - 1)

(***************************************************************************)
(* The radon kernel, for one output pixel (u, v) = (this.thread.x,         *)
(* this.thread.y).  Coordinates are integers in tenths of a voxel, the     *)
(* interpolated value in thousandths, the line integral in 1/2000.  Only   *)
(* the angles 0, 90, 180 and 270 are evaluated, with cos and sin taken as  *)
(* 0, 1 and -1: the doubles differ from these by less than 2e-16, which    *)
(* moves a sample by less than 1e-14 of a voxel.                           *)
(***************************************************************************)
\* Math.cos(theta * (Math.PI / 180))
CosDeg(theta) ==
    CASE theta = 0 -> 1 [] theta = 90 -> 0 [] theta = 180 -> -1 [] theta = 270 -> 0

\* Math.sin(theta * (Math.PI / 180))
SinDeg(theta) ==
    CASE theta = 0 -> 0 [] theta = 90 -> 1 [] theta = 180 -> 0 [] theta = 270 -> -1

\* passes of for (let t = -size * 0.7; t < size * 0.7; t += 0.5):
\* t = -0.7 size + 0.5 k for k = 0, 1, ... while 5 k < 14 size
MarchSteps(size) == (14 * size + 4) \div 5

\* x, y, z of pass k, in tenths
SamplePoint(theta, size, u, v, k) ==
    LET t == 5 * k - 7 * size
        center == 5 * size
        uCentered == 10 * u - center
        vCentered == 10 * v - center
    IN  [x |-> uCentered * CosDeg(theta) - t * SinDeg(theta) + center,
         y |-> vCentered + center,
         z |-> uCentered * SinDeg(theta) + t * CosDeg(theta) + center]

\* a bounds test up to the edge of the grid, which C14_ReadsInsideVolume
\* tells apart from the test that stops one cell short of it
InsideVolumeUpToEdge(pt, size) ==
    /\ pt.x >= 0 /\ pt.x < 10 * size
    /\ pt.y >= 0 /\ pt.y < 10 * size
    /\ pt.z >= 0 /\ pt.z < 10 * size

\* x >= 0 && x < size - 1 && y >= 0 && y < size - 1 && z >= 0 && z < size - 1
InsideVolume(pt, size) ==
    /\ pt.x >= 0 /\ pt.x < 10 * (size - 1)
    /\ pt.y >= 0 /\ pt.y < 10 * (size - 1)
    /\ pt.z >= 0 /\ pt.z < 10 * (size - 1)

\* the eight reads and the interpolation along x, then y, then z
Trilinear(volume, pt) ==
    LET x0 == pt.x \div 10
        y0 == pt.y \div 10
        z0 == pt.z \div 10
        dx == pt.x % 10
        dy == pt.y % 10
        dz == pt.z % 10
        c000 == VoxelAt(volume, z0, y0, x0)
        c100 == VoxelAt(volume, z0, y0, x0 + 1)
        c010 == VoxelAt(volume, z0, y0 + 1, x0)
        c110 == VoxelAt(volume, z0, y0 + 1, x0 + 1)
        c001 == VoxelAt(volume, z0 + 1, y0, x0)
        c101 == VoxelAt(volume, z0 + 1, y0, x0 + 1)
        c011 == VoxelAt(volume, z0 + 1, y0 + 1, x0)
        c111 == VoxelAt(volume, z0 + 1, y0 + 1, x0 + 1)
        c00 == c000 * (10 - dx) + c100 * dx
        c01 == c001 * (10 - dx) + c101 * dx
        c10 == c010 * (10 - dx) + c110 * dx
        c11 == c011 * (10 - dx) + c111 * dx
        c0 == c00 * (10 - dy) + c10 * dy
        c1 == c01 * (10 - dy) + c11 * dy
    IN  c0 * (10 - dz) + c1 * dz

\* what pass k adds to lineIntegral (before the factor 0.5)
Sample(volume, theta, size, u, v, k) ==
    LET pt == SamplePoint(theta, size, u, v, k)
    IN  IF InsideVolume(pt, size) THEN Trilinear(volume, pt) ELSE 0

RECURSIVE LineIntegral(_, _, _, _, _, _, _)
\* lineIntegral += (...) * 0.5 over the passes lo .. hi - 1; the sum is
\* exact, so it is taken by halves of the range
LineIntegral(volume, theta, size, u, v, lo, hi) ==
    IF hi <= lo THEN 0
    ELSE IF hi = lo + 1 THEN Sample(volume, theta, size, u, v, lo)
    ELSE LET mid == (lo + hi) \div 2
         IN  LineIntegral(volume, theta, size, u, v, lo, mid)
                + LineIntegral(volume, theta, size, u, v, mid, hi)

\* the kernel function's return value for thread (u, v)
radonKernel(volume, theta, size, u, v) ==
    LineIntegral(volume, theta, size, u, v, 0, MarchSteps(size))

\* one unit of a pixel value: tenths on three axes and the factor 0.5
KernelUnit == 10 * 10 * 10 * 2

\* the angle of step i of a run of four projections, in whole degrees
RightAngle(i) == AngleOf(i, 4)[1] \div AngleOf(i, 4)[2]

\* the indices [z][y][x] of the eight reads of a pass
ReadIndices(pt) ==
    LET x0 == pt.x \div 10
        y0 == pt.y \div 10
        z0 == pt.z \div 10
    IN  { <<z, y, x>> : z \in {z0, z0 + 1}, y \in {y0, y0 + 1}, x \in {x0, x0 + 1} }

RECURSIVE RayReads(_, _, _, _, _, _)
\* every index read by thread (u, v) in the passes lo .. hi - 1
RayReads(theta, size, u, v, lo, hi) ==
    IF hi <= lo THEN {}
    ELSE IF hi = lo + 1
         THEN LET pt == SamplePoint(theta, size, u, v, lo)
              IN  IF InsideVolume(pt, size) THEN ReadIndices(pt) ELSE {}
    ELSE LET mid == (lo + hi) \div 2
         IN  RayReads(theta, size, u, v, lo, mid)
                \cup RayReads(theta, size, u, v, mid, hi)

\* the rows of threads traced: those next to the two edges
EdgeRows(size) == (0..(MaxEdgeRows - 1)) \cup ((size - MaxEdgeRows)..(size - 1))

\* one thread of one kernel call of a run of four angles, on a volume of
\* the kernel's size
RayInit ==
    /\ UiInit
    /\ probe \in { [kind |-> "ray", size |-> ResolutionMin, u |-> u, v |-> v,
                    theta |-> RightAngle(i), done |-> FALSE, reads |-> {},
                    outside |-> {}, ofZeros |-> 0] :
                    u \in 0..(ResolutionMin - 1), v \in EdgeRows(ResolutionMin),
                    i \in 0..3 }

\* the thread runs: the indices it reads, what the passes whose position
\* lies outside the grid add to the pixel of the cube, and its pixel of an
\* all-zero volume
TraceRay ==
    /\ probe.kind = "ray"
    /\ ~probe.done
    /\ LET n == probe.size
           cube == createTestModel("cube", n)
           off(pt) == \E c \in {pt.x, pt.y, pt.z} : c < 0 \/ c >= 10 * n
       IN  probe' = [probe EXCEPT
                !.done = TRUE,
                !.reads = RayReads(probe.theta, n, probe.u, probe.v, 0, MarchSteps(n)),
                !.outside = { Sample(cube, probe.theta, n, probe.u, probe.v, k) :
                                k \in { j \in 0..(MarchSteps(n) - 1) :
                                    off(SamplePoint(probe.theta, n, probe.u, probe.v, j)) } },
                !.ofZeros = radonKernel(createTestModel("custom", n), probe.theta,
                                        n, probe.u, probe.v)]
    /\ UNCHANGED uiVars

SpecRay == RayInit /\ [][TraceRay]_vars

\* C14: on a volume of side N every read of the kernel is at indices in
\* [0, N) on each axis, a pass whose position is outside the volume adds 0
\* to the pixel, and the pixel of an all-zero volume is 0.
C14_ReadsInsideVolume ==
    (probe.kind = "ray" /\ probe.done) =>
        /\ \A idx \in probe.reads :
              \A a \in 1..3 : idx[a] >= 0 /\ idx[a] < probe.size
        /\ probe.outside \subseteq {0}
        /\ probe.ofZeros = 0

\* a ray that reads the last cells of the grid on an axis and also has
\* passes outside the grid
C14_Witness ==
    /\ probe.kind = "ray"
    /\ probe.done
    /\ probe.outside # {}
    /\ \E idx \in probe.reads : \E a \in 1..3 : idx[a] = probe.size - 1

\* generateProjections(createTestModel("cube"), 4) on a projector of the
\* smallest resolution, followed for the one pixel (u, v) of every projection
KernelInit ==
    /\ UiInit
    /\ probe \in { [kind |-> "kernel", size |-> ResolutionMin, u |-> u, v |-> v,
                    pc |-> "loop", data |-> <<>>] :
                    u \in 0..(ResolutionMin - 1), v \in 0..(ResolutionMin - 1) }

\* the four passes of the loop: data[i + 1][v][u] of the raw projections
KernelStep ==
    /\ probe.kind = "kernel"
    /\ probe.pc = "loop"
    /\ probe' = [probe EXCEPT !.pc = "raw",
                   !.data = [i \in 1..4 |->
                        radonKernel(createTestModel("cube", probe.size),
                                    RightAngle(i - 1), probe.size, probe.u, probe.v)]]
    /\ UNCHANGED uiVars

\* globalMin and globalMax of the four raw projections of the cube: the ray
\* of thread (0, 0) misses the cube and the ray of the middle thread crosses
\* all of it (RawWithinExtrema: no pixel of the run lies outside them)
KernelGlobalMin(size) ==
    radonKernel(createTestModel("cube", size), RightAngle(0), size, 0, 0)

KernelGlobalMax(size) ==
    radonKernel(createTestModel("cube", size), RightAngle(0), size,
                size \div 2, size \div 2)

\* normalizeProjections, for the pixel followed
NormalizeStep ==
    /\ probe.kind = "kernel"
    /\ probe.pc = "raw"
    /\ \E globalMin \in {KernelGlobalMin(probe.size)},
          globalMax \in {KernelGlobalMax(probe.size)} :
            LET range == IF globalMax - globalMin = 0 THEN KernelUnit
                         ELSE globalMax - globalMin
            IN  probe' = [probe EXCEPT !.pc = "normalized",
                            !.data = [i \in 1..4 |->
                                        Rescale(probe.data[i], globalMin, range)]]
    /\ UNCHANGED uiVars

KernelNext == KernelStep \/ NormalizeStep

SpecKernel == KernelInit /\ [][KernelNext]_vars

\* every raw pixel of the four projections lies between the values taken
\* for globalMin and globalMax
RawWithinExtrema ==
    (probe.kind = "kernel" /\ probe.pc = "raw") =>
        \A globalMin \in {KernelGlobalMin(probe.size)},
           globalMax \in {KernelGlobalMax(probe.size)} :
            \A i \in 1..4 : globalMin <= probe.data[i] /\ probe.data[i] <= globalMax

\* C8: for the cube model with M = 4, the projection at 0 degrees and the
\* projection at 180 degrees are identical pixel for pixel.
C8_OppositeProjectionsEqual ==
    (probe.kind = "kernel" /\ probe.pc = "normalized") =>
        probe.data[1] = probe.data[3]

=============================================================================
